---------------------------- MODULE Spec2Model ----------------------------
(***************************************************************************)
(* A model of cleaner/clean-wiki.py: the converter that turns an archived  *)
(* dump of c2 wiki pages into a statically servable mirror.                *)
(*                                                                         *)
(* The module holds five specifications over one set of variables:         *)
(*   SpecMapUrl     map_url applied to a URL and a page name               *)
(*   SpecPrintable  make_printable applied to a text, then to its output   *)
(*   SpecRegroup    the paragraph regrouping loop of normalize_file        *)
(*   SpecDispatch   the round-robin dispatch loop of __main__              *)
(*   Spec           __main__ as a whole: dispatch, six worker threads,     *)
(*                  join (FairSpec adds the scheduler's fairness)          *)
(* Text (URLs, page names, file names) is modelled by TLA+ strings, with   *)
(* Len, SubSeq and \o as the string operations; the text handed to         *)
(* make_printable is a sequence of code points.                            *)
(***************************************************************************)
EXTENDS Integers, Sequences, FiniteSets, TLC

VARIABLES
    pc,                  \* position of the function / main thread modelled
    url, page, mapped,   \* map_url: its arguments and its return value
    text, printable, refiltered,   \* make_printable: input, output, output of output
    children,            \* regrouping: the #wiki container's children on entry
    contents,            \* regrouping: article.contents
    article_paragraphs,  \* regrouping: the output list
    paragraph_contents,  \* regrouping: the accumulator
    listing,             \* __main__: os.listdir(sys.argv[1]), in listing order
    pos,                 \* __main__: entries of the listing already dispatched
    i,                   \* __main__: the round-robin index
    work_lists,          \* __main__: one list of entries per thread
    next_thread,         \* __main__: index of the next thread to start / join
    wstate,              \* per thread: "new", "running", "finished", "crashed"
    idx,                 \* per thread: files of its list already consumed
    written              \* the writes done in the destination directory

urlVars     == <<url, page, mapped>>
textVars    == <<text, printable, refiltered>>
regroupVars == <<children, contents, article_paragraphs, paragraph_contents>>
mainVars    == <<listing, pos, i, work_lists, next_thread, wstate, idx, written>>
vars        == <<pc, urlVars, textVars, regroupVars, mainVars>>

-----------------------------------------------------------------------------
(* Bounds of the model *)

\* longest tail appended to a URL base
MaxTail == 2
\* longest page name
MaxPageLen == 2

-----------------------------------------------------------------------------
(* Python string helpers *)

Min(a, b) == IF a < b THEN a ELSE b
Max(a, b) == IF a > b THEN a ELSE b

\* s.startswith(prefix)
StartsWith(s, prefix) ==
    /\ Len(s) >= Len(prefix)
    /\ SubSeq(s, 1, Len(prefix)) = prefix

\* s.endswith(suffix); used by the properties only
EndsWith(s, suffix) ==
    /\ Len(s) >= Len(suffix)
    /\ SubSeq(s, Len(s) - Len(suffix) + 1, Len(s)) = suffix

\* the slice s[start:stop] of Python, start >= 0, stop possibly negative
PySlice(s, start, stop) ==
    LET lo == Min(start, Len(s))
        hi == IF stop < 0 THEN Max(0, Len(s) + stop) ELSE Min(stop, Len(s))
    IN  IF lo < hi THEN SubSeq(s, lo + 1, hi) ELSE ""

\* s[start:]
PyFrom(s, start) == PySlice(s, start, Len(s))

\* all strings over the alphabet of length at most n
RECURSIVE StringsUpTo(_, _)
StringsUpTo(alphabet, n) ==
    IF n = 0 THEN {""}
    ELSE LET shorter == StringsUpTo(alphabet, n - 1)
         IN  shorter \cup {s \o c : s \in shorter, c \in alphabet}

-----------------------------------------------------------------------------
(* urllib.parse.quote, as map_url calls it (safe = '/') *)

\* characters quote() never escapes, and '/'
QuoteSafe ==
    { "A","B","C","D","E","F","G","H","I","J","K","L","M",
      "N","O","P","Q","R","S","T","U","V","W","X","Y","Z",
      "a","b","c","d","e","f","g","h","i","j","k","l","m",
      "n","o","p","q","r","s","t","u","v","w","x","y","z",
      "0","1","2","3","4","5","6","7","8","9",
      "_", ".", "-", "~", "/" }

\* %XX of the ASCII characters the model's page names use
PercentEncode(c) ==
    CASE c = " " -> "%20"
      [] c = "?" -> "%3F"
      [] c = "%" -> "%25"
      [] c = "&" -> "%26"
      [] c = "=" -> "%3D"

RECURSIVE quote(_)
quote(s) ==
    IF s = "" THEN ""
    ELSE LET c == SubSeq(s, 1, 1)
         IN  (IF c \in QuoteSafe THEN c ELSE PercentEncode(c))
                \o quote(SubSeq(s, 2, Len(s)))

-----------------------------------------------------------------------------
(* map_url *)

\* map_url with the generic 'wiki?' rule tried before the 'wiki?edit=' rule
map_url_generic_first(u, p) ==
    IF u = "http://c2.com/cgi/fullSearch"
    THEN "../fullSearch?search=" \o quote(p)
    ELSE IF u = "http://c2.com/sig/wiki.gif" \/ u = "http://c2.com/wiki.png"
    THEN "../static/wiki.gif"
    ELSE IF u = "http://c2.com/cgi/wiki"
    THEN "../wiki"
    ELSE IF StartsWith(u, "wiki%3F")
    THEN PySlice(u, 7, -5)
    ELSE IF StartsWith(u, "http://c2.com/cgi/wiki?")
    THEN PyFrom(u, 23)
    ELSE IF StartsWith(u, "http://c2.com/cgi/wiki?edit=")
    THEN PyFrom(u, 28)
    ELSE IF StartsWith(u, "http://c2.com/cgi/quickDiff?")
    THEN PyFrom(u, 28)
    ELSE IF StartsWith(u, "http://c2.com/cgi/fullSearch")
    THEN "../fullSearch" \o PyFrom(u, 28)
    ELSE u

\* map_url that keeps the dot of the trailing .html (url[7:-4])
map_url_short_suffix(u, p) ==
    IF u = "http://c2.com/cgi/fullSearch"
    THEN "../fullSearch?search=" \o quote(p)
    ELSE IF u = "http://c2.com/sig/wiki.gif" \/ u = "http://c2.com/wiki.png"
    THEN "../static/wiki.gif"
    ELSE IF u = "http://c2.com/cgi/wiki"
    THEN "../wiki"
    ELSE IF StartsWith(u, "wiki%3F")
    THEN PySlice(u, 7, -4)
    ELSE IF StartsWith(u, "http://c2.com/cgi/wiki?edit=")
    THEN PyFrom(u, 28)
    ELSE IF StartsWith(u, "http://c2.com/cgi/quickDiff?")
    THEN PyFrom(u, 28)
    ELSE IF StartsWith(u, "http://c2.com/cgi/wiki?")
    THEN PyFrom(u, 23)
    ELSE IF StartsWith(u, "http://c2.com/cgi/fullSearch")
    THEN "../fullSearch" \o PyFrom(u, 28)
    ELSE u

map_url(u, p) ==
    IF u = "http://c2.com/cgi/fullSearch"
    THEN "../fullSearch?search=" \o quote(p)
    ELSE IF u = "http://c2.com/sig/wiki.gif" \/ u = "http://c2.com/wiki.png"
    THEN "../static/wiki.gif"
    ELSE IF u = "http://c2.com/cgi/wiki"
    THEN "../wiki"
    ELSE IF StartsWith(u, "wiki%3F")
    THEN PySlice(u, 7, -5)
    ELSE IF StartsWith(u, "http://c2.com/cgi/wiki?edit=")
    THEN PyFrom(u, 28)
    ELSE IF StartsWith(u, "http://c2.com/cgi/quickDiff?")
    THEN PyFrom(u, 28)
    ELSE IF StartsWith(u, "http://c2.com/cgi/wiki?")
    THEN PyFrom(u, 23)
    ELSE IF StartsWith(u, "http://c2.com/cgi/fullSearch")
    THEN "../fullSearch" \o PyFrom(u, 28)
    ELSE u

\* the URLs the model hands to map_url: every literal of the code, some
\* near misses and an unrelated URL, each followed by a short tail and
\* possibly by '.html'
UrlBases ==
    { "http://c2.com/cgi/fullSearch", "http://c2.com/sig/wiki.gif",
      "http://c2.com/wiki.png", "http://c2.com/cgi/wiki", "wiki%3F",
      "http://c2.com/cgi/wiki?edit=", "http://c2.com/cgi/quickDiff?",
      "http://c2.com/cgi/wiki?", "http://c2.com/cgi/quickDiff",
      "wiki%3", "wiki%3FPage.htm", "", "http://example.com/unrelated" }

Urls ==
    { b \o t \o h : b \in UrlBases,
                    t \in StringsUpTo({"a", "?"}, MaxTail),
                    h \in {"", ".html"} }

Pages == StringsUpTo({"A", " ", "?"}, MaxPageLen)

\* map_url's variables in the specifications of the other parts
UrlIdle == url = "" /\ page = "" /\ mapped = ""

MapUrlEntry ==
    /\ pc = "map_url"
    /\ url \in Urls
    /\ page \in Pages
    /\ mapped = ""

\* one call map_url(url, page)
MapUrl ==
    /\ pc = "map_url"
    /\ mapped' = map_url(url, page)
    /\ pc' = "mapped"
    /\ UNCHANGED <<url, page>>

-----------------------------------------------------------------------------
(* make_printable *)

\* longest text handed to make_printable
MaxTextLen == 3

\* code points of the model's texts: tab, LF, CR, 0x1F, space, 'A', DEL, 0x80
CodePoints == {9, 10, 13, 31, 32, 65, 127, 128}

RECURSIVE SeqsUpTo(_, _)
SeqsUpTo(S, n) ==
    IF n = 0 THEN {<<>>}
    ELSE LET shorter == SeqsUpTo(S, n - 1)
         IN  shorter \cup {Append(s, c) : s \in shorter, c \in S}

Texts == SeqsUpTo(CodePoints, MaxTextLen)

\* make_printable that keeps the tab, as its docstring says
RECURSIVE make_printable_keeps_tab(_)
make_printable_keeps_tab(t) ==
    IF t = <<>> THEN <<>>
    ELSE LET ch == Head(t)
             rest == make_printable_keeps_tab(Tail(t))
         IN  IF ch \in {13, 10, 9}
             THEN <<ch>> \o rest
             ELSE IF ch # 127 /\ ch >= 32
                  THEN <<ch>> \o rest
                  ELSE rest

\* the loop of make_printable over the characters of t (0x7F = 127,
\* 0x20 = 32, '\r' = 13, '\n' = 10)
RECURSIVE make_printable(_)
make_printable(t) ==
    IF t = <<>> THEN <<>>
    ELSE LET ch == Head(t)
             rest == make_printable(Tail(t))
         IN  IF ch \in {13, 10}
             THEN <<ch>> \o rest
             ELSE IF ch # 127 /\ ch >= 32
                  THEN <<ch>> \o rest
                  ELSE rest

TextIdle == text = <<>> /\ printable = <<>> /\ refiltered = <<>>

PrintableEntry ==
    /\ pc = "filter"
    /\ text \in Texts
    /\ printable = <<>>
    /\ refiltered = <<>>

\* make_printable(text)
Filter ==
    /\ pc = "filter"
    /\ printable' = make_printable(text)
    /\ pc' = "filtered"
    /\ UNCHANGED <<text, refiltered>>

\* make_printable applied to the output of the first call
Refilter ==
    /\ pc = "filtered"
    /\ refiltered' = make_printable(printable)
    /\ pc' = "refiltered"
    /\ UNCHANGED <<text, printable>>

-----------------------------------------------------------------------------
(* Paragraph regrouping: normalize_file, from doc.select('#wiki') to       *)
(* article.extend(article_paragraphs)                                      *)

\* most direct children of the #wiki container
MaxChildren == 5

\* A node is [kind, id, kids]: kind is "text" (a NavigableString), "p",
\* "hr" or "elem" (any other tag); id tells the nodes apart (the k-th child
\* of the container has id k, the text inside the k-th child has id -k, a
\* <p> made by doc.new_tag has id 0); kids are the node's own children.
Node(kind, id, kids) == [kind |-> kind, id |-> id, kids |-> kids]

\* what the k-th child of the container can be
ChildAt(k) ==
    { Node("text", k, <<>>), Node("elem", k, <<>>), Node("hr", k, <<>>),
      Node("p", k, <<>>), Node("p", k, <<Node("text", 0 - k, <<>>)>>) }

RECURSIVE ChildSeqs(_)
ChildSeqs(n) ==
    IF n = 0 THEN {<<>>}
    ELSE LET shorter == ChildSeqs(n - 1)
         IN  shorter \cup
             {Append(s, c) : s \in {t \in shorter : Len(t) = n - 1},
                             c \in ChildAt(n)}

\* doc.new_tag('p') followed by paragraph.extend(nodes)
new_paragraph(nodes) == Node("p", 0, nodes)

\* tag.extend(nodes): the nodes are appended after the tag's own children
extend(tag, nodes) == [tag EXCEPT !.kids = tag.kids \o nodes]

RegroupIdle ==
    /\ children = <<>>
    /\ contents = <<>>
    /\ article_paragraphs = <<>>
    /\ paragraph_contents = <<>>

RegroupEntry ==
    /\ pc = "loop"
    /\ children \in ChildSeqs(MaxChildren)
    /\ contents = children
    /\ article_paragraphs = <<>>
    /\ paragraph_contents = <<>>

\* child = article.contents[0].extract() is a string
ExtractString ==
    /\ pc = "loop"
    /\ Len(contents) > 0
    /\ Head(contents).kind = "text"
    /\ paragraph_contents' = Append(paragraph_contents, Head(contents))
    /\ contents' = Tail(contents)
    /\ UNCHANGED <<pc, children, article_paragraphs>>

\* child is a tag that is neither <p> nor <hr>
ExtractOther ==
    /\ pc = "loop"
    /\ Len(contents) > 0
    /\ Head(contents).kind \notin {"text", "p", "hr"}
    /\ paragraph_contents' = Append(paragraph_contents, Head(contents))
    /\ contents' = Tail(contents)
    /\ UNCHANGED <<pc, children, article_paragraphs>>

\* the <p> branch without child.extend(paragraph_contents)
ExtractPNoExtend ==
    /\ pc = "loop"
    /\ Len(contents) > 0
    /\ Head(contents).kind = "p"
    /\ contents' = Tail(contents)
    /\ \/ /\ paragraph_contents # <<>>
          /\ article_paragraphs' = Append(article_paragraphs, Head(contents))
          /\ paragraph_contents' = <<>>
       \/ /\ paragraph_contents = <<>>
          /\ UNCHANGED <<article_paragraphs, paragraph_contents>>
    /\ UNCHANGED <<pc, children>>

\* child is a <p>
ExtractP ==
    /\ pc = "loop"
    /\ Len(contents) > 0
    /\ Head(contents).kind = "p"
    /\ contents' = Tail(contents)
    /\ \/ /\ paragraph_contents # <<>>
          /\ article_paragraphs' =
                Append(article_paragraphs,
                       extend(Head(contents), paragraph_contents))
          /\ paragraph_contents' = <<>>
       \/ /\ paragraph_contents = <<>>
          /\ UNCHANGED <<article_paragraphs, paragraph_contents>>
    /\ UNCHANGED <<pc, children>>

\* the <hr> branch without the flush of the accumulator into a new <p>
ExtractHrNoFlush ==
    /\ pc = "loop"
    /\ Len(contents) > 0
    /\ Head(contents).kind = "hr"
    /\ contents' = Tail(contents)
    /\ article_paragraphs' = Append(article_paragraphs, Head(contents))
    /\ paragraph_contents' = <<>>
    /\ UNCHANGED <<pc, children>>

\* child is an <hr>
ExtractHr ==
    /\ pc = "loop"
    /\ Len(contents) > 0
    /\ Head(contents).kind = "hr"
    /\ contents' = Tail(contents)
    /\ \/ /\ paragraph_contents # <<>>
          /\ article_paragraphs' =
                article_paragraphs
                    \o <<new_paragraph(paragraph_contents), Head(contents)>>
          /\ paragraph_contents' = <<>>
       \/ /\ paragraph_contents = <<>>
          /\ article_paragraphs' = Append(article_paragraphs, Head(contents))
          /\ UNCHANGED paragraph_contents
    /\ UNCHANGED <<pc, children>>

\* the end of the loop without the final flush
FinishRegroupNoFlush ==
    /\ pc = "loop"
    /\ Len(contents) = 0
    /\ contents' = article_paragraphs
    /\ pc' = "regrouped"
    /\ UNCHANGED <<children, article_paragraphs, paragraph_contents>>

\* the loop has ended: the final flush and article.extend(article_paragraphs)
FinishRegroup ==
    /\ pc = "loop"
    /\ Len(contents) = 0
    /\ \/ /\ paragraph_contents # <<>>
          /\ article_paragraphs' =
                Append(article_paragraphs, new_paragraph(paragraph_contents))
       \/ /\ paragraph_contents = <<>>
          /\ UNCHANGED article_paragraphs
    /\ contents' = article_paragraphs'
    /\ pc' = "regrouped"
    /\ UNCHANGED <<children, paragraph_contents>>

-----------------------------------------------------------------------------
(* __main__: the dispatch loop, the worker threads and the join            *)

\* pages of the source directory in the model
MaxPages == 7

\* threads = 6
threads == 6

Threads == 0 .. threads - 1

\* the encodings normalize_file tries, in order
Encodings == <<"utf-8", "cp1252">>

\* An entry of the source directory: its name, whether it is a directory,
\* the encodings its bytes decode under and whether the parsed document
\* has a #wiki container.  The k-th page of the dump is 'wiki?Page<k>.html';
\* the pages differ in how they decode and in whether they hold #wiki.
Page(k) ==
    [ name      |-> "wiki?Page" \o ToString(k) \o ".html",
      isdir     |-> FALSE,
      encodings |-> CASE k % 4 = 1 -> {}
                      [] k % 4 = 2 -> {"utf-8", "cp1252"}
                      [] k % 4 = 3 -> {"cp1252"}
                      [] OTHER     -> {"utf-8"},
      has_wiki  |-> k % 4 # 2 ]

\* a subdirectory of the source directory
Subdir ==
    [ name |-> "static", isdir |-> TRUE, encodings |-> {}, has_wiki |-> FALSE ]

\* a page stored without the 'wiki?' marker
Unprefixed ==
    [ name |-> "Page3.html", isdir |-> FALSE, encodings |-> {"utf-8"},
      has_wiki |-> TRUE ]

\* every entry the source directory can hold, in os.listdir's order
Universe ==
    <<Page(1), Page(2), Subdir>>
        \o [k \in 1 .. MaxPages - 2 |-> Page(k + 2)]
        \o <<Unprefixed>>

\* the entry of the source directory with this name
SrcEntry(name) ==
    CHOOSE e \in {Universe[k] : k \in DOMAIN Universe} : e.name = name

\* the subsequences of a sequence
RECURSIVE SubSequences(_)
SubSequences(s) ==
    IF s = <<>> THEN {<<>>}
    ELSE LET rest == SubSequences(Tail(s))
         IN  rest \cup {<<Head(s)>> \o t : t \in rest}

\* the runs of consecutive entries of a sequence
Windows(s) ==
    {SubSeq(s, a, b) : a \in 1 .. Len(s) + 1, b \in 0 .. Len(s)}

\* s.replace(old, ''): every occurrence of old, found left to right, removed
RECURSIVE str_remove(_, _)
str_remove(s, old) ==
    IF Len(s) < Len(old) THEN s
    ELSE IF SubSeq(s, 1, Len(old)) = old
         THEN str_remove(SubSeq(s, Len(old) + 1, Len(s)), old)
         ELSE SubSeq(s, 1, 1) \o str_remove(SubSeq(s, 2, Len(s)), old)

\* filename.replace('wiki?', '') for every name of the source directory
\* (the table is computed once)
DestNames ==
    [name \in {Universe[k].name : k \in DOMAIN Universe}
        |-> str_remove(name, "wiki?")]

\* the first encoding of Encodings the file decodes under, or "None"
decode(entry) ==
    LET ok == {k \in DOMAIN Encodings : Encodings[k] \in entry.encodings}
    IN  IF ok = {} THEN "None"
        ELSE Encodings[CHOOSE k \in ok : \A j \in ok : k <= j]

\* normalize_file without the 'if doc is None: return'
normalize_file_no_skip(filename) ==
    LET entry == SrcEntry(filename)
        doc   == decode(entry)
    IN  IF doc = "None" \/ ~entry.has_wiki
        THEN [outcome |-> "raise", dest |-> ""]
        ELSE [outcome |-> "write", dest |-> DestNames[filename]]

\* normalize_file that goes on to the write when #wiki is missing
normalize_file_no_raise(filename) ==
    LET entry == SrcEntry(filename)
        doc   == decode(entry)
    IN  IF doc = "None"
        THEN [outcome |-> "return", dest |-> ""]
        ELSE [outcome |-> "write", dest |-> DestNames[filename]]

\* normalize_file(filename, src_dir, dest_dir): how the call ends, and the
\* name of the file it writes in dest_dir
normalize_file(filename) ==
    LET entry == SrcEntry(filename)
        doc   == decode(entry)
    IN  IF doc = "None"
        THEN [outcome |-> "return", dest |-> ""]
        ELSE IF ~entry.has_wiki
        THEN [outcome |-> "raise", dest |-> ""]
        ELSE [outcome |-> "write", dest |-> DestNames[filename]]

MainIdle ==
    /\ listing = <<>>
    /\ pos = 0
    /\ i = 0
    /\ work_lists = [t \in Threads |-> <<>>]
    /\ next_thread = 0
    /\ wstate = [t \in Threads |-> "new"]
    /\ idx = [t \in Threads |-> 0]
    /\ written = {}

\* the state before the dispatch loop, for a given set of listings
InitMain(listings) ==
    /\ pc = "dispatch"
    /\ listing \in listings
    /\ pos = 0
    /\ i = 0
    /\ work_lists = [t \in Threads |-> <<>>]
    /\ next_thread = 0
    /\ wstate = [t \in Threads |-> "new"]
    /\ idx = [t \in Threads |-> 0]
    /\ written = {}

\* the dispatch loop that advances i for a directory too
DispatchSkipDirAdvancing ==
    /\ pc = "dispatch"
    /\ pos < Len(listing)
    /\ listing[pos + 1].isdir
    /\ pos' = pos + 1
    /\ i' = (i + 1) % threads
    /\ UNCHANGED <<pc, listing, work_lists, next_thread, wstate, idx, written>>

\* one iteration of the dispatch loop for a directory: continue
DispatchSkipDir ==
    /\ pc = "dispatch"
    /\ pos < Len(listing)
    /\ listing[pos + 1].isdir
    /\ pos' = pos + 1
    /\ UNCHANGED <<pc, listing, i, work_lists, next_thread, wstate, idx, written>>

\* one iteration of the dispatch loop for any other entry
DispatchAppend ==
    /\ pc = "dispatch"
    /\ pos < Len(listing)
    /\ ~listing[pos + 1].isdir
    /\ work_lists' =
            [work_lists EXCEPT ![i] = Append(@, listing[pos + 1].name)]
    /\ i' = (i + 1) % threads
    /\ pos' = pos + 1
    /\ UNCHANGED <<pc, listing, next_thread, wstate, idx, written>>

\* the dispatch loop has ended: the Thread objects are created
CreateWorkers ==
    /\ pc = "dispatch"
    /\ pos = Len(listing)
    /\ pc' = "start"
    /\ next_thread' = 0
    /\ UNCHANGED <<listing, pos, i, work_lists, wstate, idx, written>>

\* one iteration of 'for worker in workers: worker.start()'
StartWorker ==
    /\ pc = "start"
    /\ wstate' = [wstate EXCEPT ![next_thread] = "running"]
    /\ IF next_thread + 1 < threads
       THEN /\ next_thread' = next_thread + 1
            /\ pc' = "start"
       ELSE /\ next_thread' = 0
            /\ pc' = "join"
    /\ UNCHANGED <<listing, pos, i, work_lists, idx, written>>

\* one iteration of worker()'s loop in thread w: normalize_file(f, ...)
Work(w) ==
    /\ wstate[w] = "running"
    /\ idx[w] < Len(work_lists[w])
    /\ LET f == work_lists[w][idx[w] + 1]
           r == normalize_file(f)
       IN  \/ /\ r.outcome = "return"
              /\ idx' = [idx EXCEPT ![w] = @ + 1]
              /\ UNCHANGED <<wstate, written>>
           \/ /\ r.outcome = "raise"
              /\ wstate' = [wstate EXCEPT ![w] = "crashed"]
              /\ UNCHANGED <<idx, written>>
           \/ /\ r.outcome = "write"
              /\ written' = written \cup
                    {[worker |-> w, at |-> idx[w] + 1, src |-> f,
                      dest |-> r.dest]}
              /\ idx' = [idx EXCEPT ![w] = @ + 1]
              /\ UNCHANGED wstate
    /\ UNCHANGED <<pc, listing, pos, i, work_lists, next_thread>>

\* worker() returns in thread w: its list is exhausted
WorkerReturn(w) ==
    /\ wstate[w] = "running"
    /\ idx[w] = Len(work_lists[w])
    /\ wstate' = [wstate EXCEPT ![w] = "finished"]
    /\ UNCHANGED <<pc, listing, pos, i, work_lists, next_thread, idx, written>>

\* one iteration of 'for worker in workers: worker.join()': join returns
\* once the thread has ended, by return or by an uncaught exception
JoinWorker ==
    /\ pc = "join"
    /\ wstate[next_thread] \in {"finished", "crashed"}
    /\ IF next_thread + 1 < threads
       THEN /\ next_thread' = next_thread + 1
            /\ pc' = "join"
       ELSE /\ next_thread' = next_thread
            /\ pc' = "exit"
    /\ UNCHANGED <<listing, pos, i, work_lists, wstate, idx, written>>

-----------------------------------------------------------------------------
(* The specifications *)

NextMapUrl == MapUrl /\ UNCHANGED <<textVars, regroupVars, mainVars>>

InitMapUrl == MapUrlEntry /\ TextIdle /\ RegroupIdle /\ MainIdle

SpecMapUrl == InitMapUrl /\ [][NextMapUrl]_vars

NextPrintable ==
    \/ Filter /\ UNCHANGED <<urlVars, regroupVars, mainVars>>
    \/ Refilter /\ UNCHANGED <<urlVars, regroupVars, mainVars>>

InitPrintable == PrintableEntry /\ UrlIdle /\ RegroupIdle /\ MainIdle

SpecPrintable == InitPrintable /\ [][NextPrintable]_vars

NextRegroup ==
    \/ ExtractString /\ UNCHANGED <<urlVars, textVars, mainVars>>
    \/ ExtractOther /\ UNCHANGED <<urlVars, textVars, mainVars>>
    \/ ExtractP /\ UNCHANGED <<urlVars, textVars, mainVars>>
    \/ ExtractHr /\ UNCHANGED <<urlVars, textVars, mainVars>>
    \/ FinishRegroup /\ UNCHANGED <<urlVars, textVars, mainVars>>

InitRegroup == RegroupEntry /\ UrlIdle /\ TextIdle /\ MainIdle

SpecRegroup == InitRegroup /\ [][NextRegroup]_vars

NextDispatch ==
    \/ DispatchSkipDir /\ UNCHANGED <<urlVars, textVars, regroupVars>>
    \/ DispatchAppend /\ UNCHANGED <<urlVars, textVars, regroupVars>>
    \/ CreateWorkers /\ UNCHANGED <<urlVars, textVars, regroupVars>>

InitDispatch ==
    InitMain(SubSequences(Universe)) /\ UrlIdle /\ TextIdle /\ RegroupIdle

SpecDispatch == InitDispatch /\ [][NextDispatch]_vars

Next ==
    \/ NextDispatch
    \/ StartWorker /\ UNCHANGED <<urlVars, textVars, regroupVars>>
    \/ \E w \in Threads : Work(w) /\ UNCHANGED <<urlVars, textVars, regroupVars>>
    \/ \E w \in Threads :
            WorkerReturn(w) /\ UNCHANGED <<urlVars, textVars, regroupVars>>
    \/ JoinWorker /\ UNCHANGED <<urlVars, textVars, regroupVars>>

Init == InitMain(Windows(Universe)) /\ UrlIdle /\ TextIdle /\ RegroupIdle

Spec == Init /\ [][Next]_vars

\* the main thread and every started thread keep being scheduled
FairSpec == Spec /\ WF_vars(Next)

-----------------------------------------------------------------------------
(* Properties of map_url (SpecMapUrl) *)

\* the patterns of map_url's conditions, in the order of the code
RulePatterns ==
    << [kind |-> "exact",  pattern |-> "http://c2.com/cgi/fullSearch"],
       [kind |-> "exact",  pattern |-> "http://c2.com/sig/wiki.gif"],
       [kind |-> "exact",  pattern |-> "http://c2.com/wiki.png"],
       [kind |-> "exact",  pattern |-> "http://c2.com/cgi/wiki"],
       [kind |-> "prefix", pattern |-> "wiki%3F"],
       [kind |-> "prefix", pattern |-> "http://c2.com/cgi/wiki?edit="],
       [kind |-> "prefix", pattern |-> "http://c2.com/cgi/quickDiff?"],
       [kind |-> "prefix", pattern |-> "http://c2.com/cgi/wiki?"],
       [kind |-> "prefix", pattern |-> "http://c2.com/cgi/fullSearch"] >>

RuleMatches(k, u) ==
    IF RulePatterns[k].kind = "exact"
    THEN u = RulePatterns[k].pattern
    ELSE StartsWith(u, RulePatterns[k].pattern)

\* what the rule of the k-th pattern returns, taken alone
RuleOutput(k, u, p) ==
    CASE k = 1 -> "../fullSearch?search=" \o quote(p)
      [] k \in {2, 3} -> "../static/wiki.gif"
      [] k = 4 -> "../wiki"
      [] k = 5 -> PySlice(u, 7, -5)
      [] k \in {6, 7} -> PyFrom(u, 28)
      [] k = 8 -> PyFrom(u, 23)
      [] k = 9 -> "../fullSearch" \o PyFrom(u, 28)

MatchingRules(u) == {k \in DOMAIN RulePatterns : RuleMatches(k, u)}

\* C3: the earliest matching rule decides the result of map_url: the exact
\* full-text-search URL gets the search of the escaped page name, a URL
\* starting with 'http://c2.com/cgi/wiki?edit=' loses its first 28
\* characters (not 23), a URL matching no pattern is returned unchanged,
\* and the page name matters for the exact full-text-search URL only.
C3_FirstMatchWins ==
    pc = "mapped" =>
        /\ LET m == MatchingRules(url)
           IN  IF m = {} THEN mapped = url
               ELSE LET first == CHOOSE k \in m : \A j \in m : k <= j
                    IN  mapped = RuleOutput(first, url, page)
        /\ url = "http://c2.com/cgi/fullSearch"
              => mapped = "../fullSearch?search=" \o quote(page)
        /\ StartsWith(url, "http://c2.com/cgi/wiki?edit=")
              => "http://c2.com/cgi/wiki?edit=" \o mapped = url
        /\ url # "http://c2.com/cgi/fullSearch"
              => \A p \in Pages : map_url(url, p) = mapped

\* a URL matched by the 'wiki?edit=' rule and by the generic 'wiki?' rule
\* has been mapped
C3_Witness ==
    /\ pc = "mapped"
    /\ Cardinality(MatchingRules(url)) > 1
    /\ StartsWith(url, "http://c2.com/cgi/wiki?edit=")
    /\ Len(mapped) > 0

\* C8 as stated: for every URL starting with 'wiki%3F',
\* 'wiki%3F' + map_url(url, page) + '.html' = url.
C8_Original ==
    (pc = "mapped" /\ StartsWith(url, "wiki%3F"))
        => "wiki%3F" \o mapped \o ".html" = url

\* C8, amended: for every URL starting with 'wiki%3F', map_url returns the
\* URL without that prefix and without its last five characters, whatever
\* they are (nothing when fewer than five characters follow the prefix);
\* 'wiki%3F' + map_url(url, page) + '.html' = url exactly when the URL ends
\* with '.html'.
C8_SliceOfMarkedUrl ==
    (pc = "mapped" /\ StartsWith(url, "wiki%3F")) =>
        /\ IF Len(url) >= 12
           THEN "wiki%3F" \o mapped \o SubSeq(url, Len(url) - 4, Len(url)) = url
           ELSE mapped = ""
        /\ ("wiki%3F" \o mapped \o ".html" = url) <=> EndsWith(url, ".html")

\* a wiki link 'wiki%3F<name>.html' with a non-empty name has been mapped
C8_Witness ==
    /\ pc = "mapped"
    /\ StartsWith(url, "wiki%3F")
    /\ EndsWith(url, ".html")
    /\ Len(mapped) > 0

-----------------------------------------------------------------------------
(* Properties of make_printable (SpecPrintable) *)

\* the characters C6 says are removed
Removed(c) == (c < 32 /\ c # 13 /\ c # 10) \/ c = 127

Kept(c) == ~Removed(c)

-----------------------------------------------------------------------------
(* Properties of the paragraph regrouping (SpecRegroup) *)

Ids(nodes) == [k \in DOMAIN nodes |-> nodes[k].id]

\* the output with every paragraph replaced by its children
RECURSIVE Unwrapped(_)
Unwrapped(nodes) ==
    IF nodes = <<>> THEN <<>>
    ELSE (IF Head(nodes).kind = "p" THEN Head(nodes).kids ELSE <<Head(nodes)>>)
            \o Unwrapped(Tail(nodes))

IsChildId(n) == n.id > 0
NotP(n) == n.kind # "p"

\* ids of the nodes in the output: the top-level ones and the paragraphs' children
OutputIds ==
    {contents[k].id : k \in DOMAIN contents}
        \cup UNION {{contents[k].kids[j].id : j \in DOMAIN contents[k].kids}
                        : k \in DOMAIN contents}

\* positions of the container's children that are nowhere in the output
Missing == {k \in DOMAIN children : k \notin OutputIds}

\* the accumulator is empty when the k-th child is met
AccEmptyAt(k) == k = 1 \/ children[k - 1].kind \in {"p", "hr"}

\* text and elements are in exactly one paragraph, <hr> is top-level, all
\* in their original order
Conserved ==
    /\ \A k \in DOMAIN contents :
          /\ contents[k].kind \in {"p", "hr"}
          /\ \A j \in DOMAIN contents[k].kids :
                contents[k].kids[j].kind \in {"text", "elem"}
    /\ Ids(SelectSeq(Unwrapped(contents), IsChildId))
          = Ids(SelectSeq(children, NotP))

\* C2 as stated: content is conserved and the only nodes missing from
\* the output are empty <p> markers met while the accumulator was empty.
C2_Original ==
    pc = "regrouped" =>
        /\ Conserved
        /\ \A k \in Missing :
              /\ children[k].kind = "p"
              /\ children[k].kids = <<>>
              /\ AccEmptyAt(k)

\* C2, amended: each text node and each element that is neither <p> nor
\* <hr> is in exactly one output paragraph, in its original relative order;
\* each <hr> is a top-level sibling once, in its original position; the only
\* children missing from the output are <p> elements, empty or not, met
\* while the accumulator was empty.
C2_Conservation ==
    pc = "regrouped" =>
        /\ Conserved
        /\ \A k \in Missing : children[k].kind = "p" /\ AccEmptyAt(k)

\* a container with text, an <hr> and a dropped non-empty <p> has been regrouped
C2_Witness ==
    /\ pc = "regrouped"
    /\ \E k \in Missing : children[k].kids # <<>>
    /\ \E k \in DOMAIN children : children[k].kind = "hr"
    /\ \E k \in DOMAIN contents : contents[k].kind = "p" /\ Len(contents[k].kids) > 1

\* [text("a"), <p></p>, text("b"), <hr>, text("c")]
Example ==
    << Node("text", 1, <<>>), Node("p", 2, <<>>), Node("text", 3, <<>>),
       Node("hr", 4, <<>>), Node("text", 5, <<>>) >>

\* a node as its kind and the ids of its children
View(n) == [kind |-> n.kind, kids |-> Ids(n.kids)]

Views(nodes) == [k \in DOMAIN nodes |-> View(nodes[k])]

\* C5 as stated: the example regroups to [<p>a</p>, <hr>, <p>c</p>].
C5_Original ==
    (pc = "regrouped" /\ children = Example) =>
        Views(contents) =
            << [kind |-> "p", kids |-> <<1>>], [kind |-> "hr", kids |-> <<>>],
               [kind |-> "p", kids |-> <<5>>] >>

\* C5, amended: the example regroups to
\* [<p>a</p>, <p>b</p>, <hr>, <p>c</p>].
C5_Example ==
    (pc = "regrouped" /\ children = Example) =>
        Views(contents) =
            << [kind |-> "p", kids |-> <<1>>], [kind |-> "p", kids |-> <<3>>],
               [kind |-> "hr", kids |-> <<>>], [kind |-> "p", kids |-> <<5>>] >>

\* the example has been regrouped
C5_Witness == pc = "regrouped" /\ children = Example /\ Len(contents) > 0

NoSeparator == \A k \in DOMAIN children : children[k].kind \notin {"p", "hr"}

\* the container holds one new <p> wrapping all the original children
OneParagraph ==
    /\ Len(contents) = 1
    /\ contents[1].kind = "p"
    /\ contents[1].id = 0
    /\ contents[1].kids = children

\* C7 as stated: a container with no <p> and no <hr> among its children
\* ends with exactly one child, a new <p> holding the original children.
C7_Original == (pc = "regrouped" /\ NoSeparator) => OneParagraph

\* C7, amended: a container with at least one child and no <p> and no <hr>
\* among its children ends with exactly one child, a new <p> holding the
\* original children in order; a container with no child stays empty.
C7_OneParagraph ==
    (pc = "regrouped" /\ NoSeparator) =>
        IF children = <<>> THEN contents = <<>> ELSE OneParagraph

\* a container of several children, none a separator, has been regrouped
C7_Witness ==
    pc = "regrouped" /\ NoSeparator /\ Len(children) > 1 /\ Len(contents) = 1

-----------------------------------------------------------------------------
(* Properties of the dispatch loop (SpecDispatch) *)

IsFile(e) == ~e.isdir

\* the names of the non-directory entries, in listing order
ListedFiles == [k \in DOMAIN SelectSeq(listing, IsFile)
                    |-> SelectSeq(listing, IsFile)[k].name]

\* the places <<list, position>> of the work lists that hold the name
PlacesOf(name) ==
    {pl \in UNION {{<<t, j>> : j \in DOMAIN work_lists[t]} : t \in DOMAIN work_lists}
        : work_lists[pl[1]][pl[2]] = name}

\* C9: after the dispatch loop every non-directory entry is in exactly one
\* of the six work lists, which hold nothing else; the k-th listed file
\* (from 0) is in list k mod 6, in listing order; the sizes of any two
\* lists differ by at most one.
C9_RoundRobin ==
    pc = "start" =>
        /\ DOMAIN work_lists = 0 .. 5
        /\ \A k \in DOMAIN ListedFiles :
              /\ Cardinality(PlacesOf(ListedFiles[k])) = 1
              /\ PlacesOf(ListedFiles[k]) = {<<(k - 1) % 6, ((k - 1) \div 6) + 1>>}
        /\ \A t \in DOMAIN work_lists : \A j \in DOMAIN work_lists[t] :
              \E k \in DOMAIN ListedFiles : ListedFiles[k] = work_lists[t][j]
        /\ \A a, b \in DOMAIN work_lists :
              a # b => \A j \in DOMAIN work_lists[a], k \in DOMAIN work_lists[b] :
                          work_lists[a][j] # work_lists[b][k]
        /\ \A a, b \in DOMAIN work_lists :
              Len(work_lists[a]) - Len(work_lists[b]) \in {-1, 0, 1}

\* a listing of more than six files, with a directory before one of them,
\* has been dispatched
C9_Witness ==
    /\ pc = "start"
    /\ Len(ListedFiles) > 6
    /\ \E k \in DOMAIN listing :
          listing[k].isdir /\ \E j \in DOMAIN listing : j > k /\ ~listing[j].isdir
    /\ Len(work_lists[0]) = 2

-----------------------------------------------------------------------------
(* Properties of the workers (Spec, FairSpec) *)

\* C1 as stated: no two workers write the same destination filename.
C1_Original ==
    \A r1, r2 \in written : r1.worker # r2.worker => r1.dest # r2.dest

\* the file decodes neither as UTF-8 nor as cp1252
Undecodable(name) == SrcEntry(name).encodings \cap {"utf-8", "cp1252"} = {}

\* the file decodes and its document has no #wiki container
LacksWiki(name) == ~Undecodable(name) /\ ~SrcEntry(name).has_wiki

\* thread w has taken a step
Stepped(w) == idx'[w] # idx[w] \/ wstate'[w] # wstate[w]

\* C4: a call of normalize_file on a file that decodes under neither
\* encoding returns without raising and leaves the destination directory
\* as it was, and the worker moves on to the next file of its list.
C4_SkipUndecodable ==
    [][\A w \in Threads :
          ( /\ wstate[w] = "running"
            /\ idx[w] < Len(work_lists[w])
            /\ Undecodable(work_lists[w][idx[w] + 1])
            /\ Stepped(w) )
          => /\ written' = written
             /\ wstate'[w] = "running"
             /\ idx'[w] = idx[w] + 1]_vars

\* a worker has skipped an undecodable file and written the file after it
C4_Witness ==
    \E w \in Threads :
        /\ Len(work_lists[w]) >= 2
        /\ Undecodable(work_lists[w][1])
        /\ \E r \in written : r.worker = w /\ r.at = 2

\* positions of thread w's list holding a decodable file without #wiki
Fatal(w) == {k \in DOMAIN work_lists[w] : LacksWiki(work_lists[w][k])}

\* the files of its list thread w gets through: all of them, or those
\* before the first decodable file without #wiki
Reach(w) ==
    IF Fatal(w) = {} THEN Len(work_lists[w])
    ELSE (CHOOSE k \in Fatal(w) : \A j \in Fatal(w) : k <= j) - 1

\* a worker never gets past its first decodable file without #wiki and
\* writes nothing from there on; once the joins are over every worker has
\* handled all the files it reaches, whatever the other workers met
StopsAtMissingWiki ==
    /\ \A w \in Threads :
          /\ idx[w] <= Reach(w)
          /\ \A r \in written : r.worker = w => r.at <= Reach(w)
    /\ pc = "exit" =>
          \A w \in Threads :
              /\ idx[w] = Reach(w)
              /\ wstate[w] = IF Fatal(w) = {} THEN "finished" ELSE "crashed"
              /\ \A k \in 1 .. Reach(w) :
                    ~Undecodable(work_lists[w][k]) =>
                        \E r \in written :
                            r.worker = w /\ r.at = k /\ r.src = work_lists[w][k]

=============================================================================
